---- MODULE Spec2Model ----
(***************************************************************************)
(* Model of the Slalom Capabilities Management API (src/src/app.py): the   *)
(* in-memory capability catalog, the practice-lead credential store and    *)
(* the four HTTP handlers.  Spec runs the handlers one request at a time;  *)
(* SpecConc runs register/unregister on worker threads, where the          *)
(* membership test and the list mutation are separate steps.               *)
(***************************************************************************)
EXTENDS Integers, Sequences, FiniteSets, TLC

VARIABLES
    capabilities,    \* app.py:52 the catalog: name -> record
    practice_leads,  \* app.py:20-25 the credential store (a list of accounts)
    last,            \* the most recently answered request and its response
    follows,         \* history: what `last` came right after (see Answer)
    prevCaps,        \* history: the catalog when `last` started to be answered
    thr              \* SpecConc: each worker's position inside a handler

vars == <<capabilities, practice_leads, last, follows, prevCaps, thr>>

----------------------------------------------------------------------------
\* Bound of the model.

\* how many distinct consultant emails requests may name
MaxEmails == 2

----------------------------------------------------------------------------
\* Values.

\* request.headers.get(...) of an absent header
None == "<None>"

Range(s) == {s[i] : i \in 1..Len(s)}

Count(s, e) == Cardinality({i \in 1..Len(s) : s[i] = e})

NoDup(s) == \A i, j \in 1..Len(s) : s[i] = s[j] => i = j

\* the names of the seeded catalog, in source order
CapabilityOrder ==
    << "Cloud Architecture", "Data Analytics", "DevOps Engineering",
       "Digital Strategy", "Change Management", "UX/UI Design",
       "Cybersecurity", "Business Intelligence", "Agile Coaching" >>

SkillLevels == <<"Emerging", "Proficient", "Advanced", "Expert">>

\* the seeded catalog, app.py:52-134
SeedCatalog ==
    [n \in Range(CapabilityOrder) |->
      CASE n = "Cloud Architecture" ->
             [description |-> "Design and implement scalable cloud solutions using AWS, Azure, and GCP",
              practice_area |-> "Technology", skill_levels |-> SkillLevels,
              certifications |-> <<"AWS Solutions Architect", "Azure Architect Expert">>,
              industry_verticals |-> <<"Healthcare", "Financial Services", "Retail">>,
              capacity |-> 40,
              consultants |-> <<"alice.smith@slalom.com", "bob.johnson@slalom.com">>]
        [] n = "Data Analytics" ->
             [description |-> "Advanced data analysis, visualization, and machine learning solutions",
              practice_area |-> "Technology", skill_levels |-> SkillLevels,
              certifications |-> <<"Tableau Desktop Specialist", "Power BI Expert", "Google Analytics">>,
              industry_verticals |-> <<"Retail", "Healthcare", "Manufacturing">>,
              capacity |-> 35,
              consultants |-> <<"emma.davis@slalom.com", "sophia.wilson@slalom.com">>]
        [] n = "DevOps Engineering" ->
             [description |-> "CI/CD pipeline design, infrastructure automation, and containerization",
              practice_area |-> "Technology", skill_levels |-> SkillLevels,
              certifications |-> <<"Docker Certified Associate", "Kubernetes Admin", "Jenkins Certified">>,
              industry_verticals |-> <<"Technology", "Financial Services">>,
              capacity |-> 30,
              consultants |-> <<"john.brown@slalom.com", "olivia.taylor@slalom.com">>]
        [] n = "Digital Strategy" ->
             [description |-> "Digital transformation planning and strategic technology roadmaps",
              practice_area |-> "Strategy", skill_levels |-> SkillLevels,
              certifications |-> <<"Digital Transformation Certificate", "Agile Certified Practitioner">>,
              industry_verticals |-> <<"Healthcare", "Financial Services", "Government">>,
              capacity |-> 25,
              consultants |-> <<"liam.anderson@slalom.com", "noah.martinez@slalom.com">>]
        [] n = "Change Management" ->
             [description |-> "Organizational change leadership and adoption strategies",
              practice_area |-> "Operations", skill_levels |-> SkillLevels,
              certifications |-> <<"Prosci Certified", "Lean Six Sigma Black Belt">>,
              industry_verticals |-> <<"Healthcare", "Manufacturing", "Government">>,
              capacity |-> 20,
              consultants |-> <<"ava.garcia@slalom.com", "mia.rodriguez@slalom.com">>]
        [] n = "UX/UI Design" ->
             [description |-> "User experience design and digital product innovation",
              practice_area |-> "Technology", skill_levels |-> SkillLevels,
              certifications |-> <<"Adobe Certified Expert", "Google UX Design Certificate">>,
              industry_verticals |-> <<"Retail", "Healthcare", "Technology">>,
              capacity |-> 30,
              consultants |-> <<"amelia.lee@slalom.com", "harper.white@slalom.com">>]
        [] n = "Cybersecurity" ->
             [description |-> "Information security strategy, risk assessment, and compliance",
              practice_area |-> "Technology", skill_levels |-> SkillLevels,
              certifications |-> <<"CISSP", "CISM", "CompTIA Security+">>,
              industry_verticals |-> <<"Financial Services", "Healthcare", "Government">>,
              capacity |-> 25,
              consultants |-> <<"ella.clark@slalom.com", "scarlett.lewis@slalom.com">>]
        [] n = "Business Intelligence" ->
             [description |-> "Enterprise reporting, data warehousing, and business analytics",
              practice_area |-> "Technology", skill_levels |-> SkillLevels,
              certifications |-> <<"Microsoft BI Certification", "Qlik Sense Certified">>,
              industry_verticals |-> <<"Retail", "Manufacturing", "Financial Services">>,
              capacity |-> 35,
              consultants |-> <<"james.walker@slalom.com", "benjamin.hall@slalom.com">>]
        [] OTHER ->
             [description |-> "Agile transformation and team coaching for scaled delivery",
              practice_area |-> "Operations", skill_levels |-> SkillLevels,
              certifications |-> <<"Certified Scrum Master", "SAFe Agilist", "ICAgile Certified">>,
              industry_verticals |-> <<"Technology", "Financial Services", "Healthcare">>,
              capacity |-> 20,
              consultants |-> <<"charlotte.young@slalom.com", "henry.king@slalom.com">>]]

\* the capabilities the model carries; the other seven behave alike and
\* are never touched by a request that names one of these
ModelledNames == {CapabilityOrder[1], CapabilityOrder[2]}

\* a path parameter that names no capability
UnknownCapability == "Quantum Computing"

CapabilityNames == ModelledNames \cup {UnknownCapability}

\* the emails requests may name: a newcomer first, then seeded consultants
EmailPool ==
    << "carol@slalom.com", "alice.smith@slalom.com", "bob.johnson@slalom.com",
       "emma.davis@slalom.com" >>

Emails == {EmailPool[i] : i \in 1..MaxEmails}

\* app.py:27-28 sha256(password).hexdigest(): one-way and, on the passwords
\* of the model, collision free; never equal to the password itself
hash_password(password) == <<"sha256", password>>

\* practice_leads.json, loaded at app.py:20-23: accounts of role practice_lead
LeadPool ==
    << [username |-> "lead.one", password_hash |-> hash_password("pw-one"),
        role |-> "practice_lead"],
       [username |-> "lead.two", password_hash |-> hash_password("pw-two"),
        role |-> "practice_lead"] >>

\* the credential store a process may start with: the file is missing
\* (app.py:24-25) or lists the accounts
CredentialStores == {<<>>, LeadPool}

\* the (X-Username, X-Password) header pairs requests may carry: a header
\* absent, a header empty, both missing, a stored account, a stored username
\* with another account's password, an unknown username
Credentials ==
    { <<None, "pw-one">>, <<"lead.one", "">>, <<"", None>>,
      <<"lead.one", "pw-one">>, <<"lead.one", "pw-two">>, <<"mallory", "pw-one">> }

----------------------------------------------------------------------------
\* The handlers' code.

NoUser == [username |-> None, password_hash |-> <<>>, role |-> None]

\* variant: the scan compares the username alone
authenticate_by_username(leads, username, password) ==
    LET hits == {i \in 1..Len(leads) : leads[i].username = username}
    IN  IF hits = {} THEN NoUser
        ELSE leads[CHOOSE i \in hits : \A j \in hits : i <= j]

\* app.py:30-34
authenticate_user(leads, username, password) ==
    LET hits == {i \in 1..Len(leads) :
                    /\ leads[i].username = username
                    /\ leads[i].password_hash = hash_password(password)}
    IN  IF hits = {} THEN NoUser
        ELSE leads[CHOOSE i \in hits : \A j \in hits : i <= j]

\* Python truthiness of a header value, app.py:39
Falsy(v) == v = None \/ v = ""

\* variant: `and` for `or` in the test for missing headers
get_current_user_both_missing(leads, username, password) ==
    IF Falsy(username) /\ Falsy(password)
    THEN [status |-> 401, detail |-> "Missing credentials", user |-> NoUser]
    ELSE LET user == authenticate_user(leads, username, password)
         IN  IF user = NoUser
             THEN [status |-> 403, detail |-> "Invalid credentials", user |-> NoUser]
             ELSE [status |-> 200, detail |-> "", user |-> user]

\* app.py:36-44
get_current_user(leads, username, password) ==
    IF Falsy(username) \/ Falsy(password)
    THEN [status |-> 401, detail |-> "Missing credentials", user |-> NoUser]
    ELSE LET user == authenticate_user(leads, username, password)
         IN  IF user = NoUser
             THEN [status |-> 403, detail |-> "Invalid credentials", user |-> NoUser]
             ELSE [status |-> 200, detail |-> "", user |-> user]

\* variant: `and` for the outer `or`, so that everyone acts on themselves only
AllowedSelfOnly(user, email) ==
    /\ user.role \in {"practice_lead", "consultant"}
    /\ user.username = email

\* app.py:158 and app.py:181, the authorization rule
Allowed(user, email) ==
    \/ user.role = "practice_lead"
    \/ (user.role = "consultant" /\ user.username = email)

\* app.py:159, `email in capability["consultants"]`
Contains(list, email) == \E i \in 1..Len(list) : list[i] = email

\* variant: list.insert(0, email)
ListPrepend(list, email) == <<email>> \o list

\* app.py:164, list.append
ListAppend(list, email) == Append(list, email)

\* variant: list.pop(), which drops the last entry whatever it is
ListPop(list, email) == SubSeq(list, 1, Len(list) - 1)

\* variant: swap-with-last removal, which loses the order of the rest
ListRemoveSwap(list, email) ==
    LET k == CHOOSE i \in 1..Len(list) : list[i] = email
    IN  IF k = Len(list) THEN SubSeq(list, 1, Len(list) - 1)
        ELSE [i \in 1..(Len(list) - 1) |-> IF i = k THEN list[Len(list)] ELSE list[i]]

\* app.py:187, list.remove: drops the first occurrence
ListRemove(list, email) ==
    LET k == CHOOSE i \in 1..Len(list) :
                 list[i] = email /\ \A j \in 1..(i - 1) : list[j] # email
    IN  SubSeq(list, 1, k - 1) \o SubSeq(list, k + 1, Len(list))

\* app.py:165, the f-string of the success message, piece by piece
RegisteredMessage(email, capability_name) ==
    <<"Registered ", email, " for ", capability_name>>

\* app.py:188
UnregisteredMessage(email, capability_name) ==
    <<"Unregistered ", email, " from ", capability_name>>

NoBody == <<>>

Error(status, detail) == [status |-> status, detail |-> detail, message |-> NoBody]

Success(message) == [status |-> 200, detail |-> "", message |-> message]

\* variant: the existence test runs before the credentials are looked at
RegisterChecksExistenceFirst(caps, leads, capability_name, email, username, password) ==
    LET auth == get_current_user(leads, username, password)
    IN  IF capability_name \notin DOMAIN caps
        THEN Error(404, "Capability not found")
        ELSE IF auth.status # 200 THEN Error(auth.status, auth.detail)
        ELSE IF ~Allowed(auth.user, email)
        THEN Error(403, "Insufficient permissions")
        ELSE IF Contains(caps[capability_name].consultants, email)
        THEN Error(400, "Consultant is already registered for this capability")
        ELSE Error(0, "")

\* variant: the membership test is missing
RegisterChecksNoMembership(caps, leads, capability_name, email, username, password) ==
    LET auth == get_current_user(leads, username, password)
    IN  IF auth.status # 200 THEN Error(auth.status, auth.detail)
        ELSE IF capability_name \notin DOMAIN caps
        THEN Error(404, "Capability not found")
        ELSE IF ~Allowed(auth.user, email)
        THEN Error(403, "Insufficient permissions")
        ELSE Error(0, "")

\* The part of a mutating handler that only reads: the Depends(get_current_user)
\* dependency, then the body down to the membership test.  Yields the error
\* response, or status 0 when the handler goes on to mutate the list.
\* app.py:148-163
RegisterChecks(caps, leads, capability_name, email, username, password) ==
    LET auth == get_current_user(leads, username, password)
    IN  IF auth.status # 200 THEN Error(auth.status, auth.detail)
        ELSE IF capability_name \notin DOMAIN caps
        THEN Error(404, "Capability not found")
        ELSE IF ~Allowed(auth.user, email)
        THEN Error(403, "Insufficient permissions")
        ELSE IF Contains(caps[capability_name].consultants, email)
        THEN Error(400, "Consultant is already registered for this capability")
        ELSE Error(0, "")

\* app.py:171-186
UnregisterChecks(caps, leads, capability_name, email, username, password) ==
    LET auth == get_current_user(leads, username, password)
    IN  IF auth.status # 200 THEN Error(auth.status, auth.detail)
        ELSE IF capability_name \notin DOMAIN caps
        THEN Error(404, "Capability not found")
        ELSE IF ~Allowed(auth.user, email)
        THEN Error(403, "Insufficient permissions")
        ELSE IF ~Contains(caps[capability_name].consultants, email)
        THEN Error(400, "Consultant is not registered for this capability")
        ELSE Error(0, "")

\* variant: the append tests membership again, as under a lock
RegisterMutateRechecked(caps, capability_name, email) ==
    IF Contains(caps[capability_name].consultants, email)
    THEN [capabilities |-> caps,
          response |-> Error(400, "Consultant is already registered for this capability")]
    ELSE [capabilities |->
            [caps EXCEPT ![capability_name].consultants = ListAppend(@, email)],
          response |-> Success(RegisteredMessage(email, capability_name))]

\* app.py:164-165
RegisterMutate(caps, capability_name, email) ==
    [capabilities |->
        [caps EXCEPT ![capability_name].consultants = ListAppend(@, email)],
     response |-> Success(RegisteredMessage(email, capability_name))]

\* app.py:187-188; list.remove raises ValueError when the email is gone,
\* which the server answers with 500
UnregisterMutate(caps, capability_name, email) ==
    IF Contains(caps[capability_name].consultants, email)
    THEN [capabilities |->
            [caps EXCEPT ![capability_name].consultants = ListRemove(@, email)],
          response |-> Success(UnregisteredMessage(email, capability_name))]
    ELSE [capabilities |-> caps,
          response |-> Error(500, "Internal Server Error")]

\* variant: the append happens before the membership test
register_append_first(caps, leads, capability_name, email, username, password) ==
    LET checked == RegisterChecks(caps, leads, capability_name, email, username, password)
    IN  IF checked.status \in {0, 400}
        THEN [capabilities |-> RegisterMutate(caps, capability_name, email).capabilities,
              response |-> IF checked.status = 0
                           THEN Success(RegisteredMessage(email, capability_name))
                           ELSE checked]
        ELSE [capabilities |-> caps, response |-> checked]

\* app.py:147-167, the whole request
register_for_capability(caps, leads, capability_name, email, username, password) ==
    LET checked == RegisterChecks(caps, leads, capability_name, email, username, password)
    IN  IF checked.status # 0
        THEN [capabilities |-> caps, response |-> checked]
        ELSE RegisterMutate(caps, capability_name, email)

\* app.py:170-190, the whole request
unregister_from_capability(caps, leads, capability_name, email, username, password) ==
    LET checked == UnregisterChecks(caps, leads, capability_name, email, username, password)
    IN  IF checked.status # 0
        THEN [capabilities |-> caps, response |-> checked]
        ELSE UnregisterMutate(caps, capability_name, email)

----------------------------------------------------------------------------
\* State machine.

NoRequest == [op |-> "none", cap |-> "", email |-> "", username |-> None, password |-> None]

Requests(op) ==
    {[op |-> op, cap |-> c, email |-> e, username |-> k[1], password |-> k[2]] :
        c \in CapabilityNames, e \in Emails, k \in Credentials}

Workers == {"w1", "w2"}

Idle(status) == [pc |-> "idle", op |-> "none", cap |-> "", email |-> "", status |-> status]

Init ==
    /\ capabilities = [n \in ModelledNames |-> SeedCatalog[n]]
    /\ practice_leads \in CredentialStores
    /\ last = [req |-> NoRequest, response |-> Error(0, "")]
    /\ follows = "none"
    /\ prevCaps = capabilities
    /\ thr = [w \in Workers |-> Idle(0)]

\* A request is answered and the histories move on.  `follows` becomes the
\* operation of the request answered just before, when that one succeeded
\* and this one names the same capability and email; "none" otherwise.
Answer(req, response) ==
    /\ last' = [req |-> req, response |-> response]
    /\ follows' = IF /\ last.req.op \in {"register", "unregister"}
                     /\ last.response.status = 200
                     /\ req.op \in {"register", "unregister"}
                     /\ req.cap = last.req.cap
                     /\ req.email = last.req.email
                  THEN last.req.op
                  ELSE "none"
    /\ prevCaps' = capabilities

\* app.py:137-139
root ==
    /\ Answer([NoRequest EXCEPT !.op = "root"],
              [status |-> 307, detail |-> "", message |-> <<"/static/index.html">>])
    /\ UNCHANGED <<capabilities, practice_leads, thr>>

\* app.py:142-144
get_capabilities ==
    /\ Answer([NoRequest EXCEPT !.op = "list"],
              [status |-> 200, detail |-> "", message |-> <<capabilities>>])
    /\ UNCHANGED <<capabilities, practice_leads, thr>>

\* app.py:147-167 run without interruption
Register(req) ==
    LET r == register_for_capability(capabilities, practice_leads,
                 req.cap, req.email, req.username, req.password)
    IN  /\ capabilities' = r.capabilities
        /\ Answer(req, r.response)
        /\ UNCHANGED <<practice_leads, thr>>

\* app.py:170-190 run without interruption
Unregister(req) ==
    LET r == unregister_from_capability(capabilities, practice_leads,
                 req.cap, req.email, req.username, req.password)
    IN  /\ capabilities' = r.capabilities
        /\ Answer(req, r.response)
        /\ UNCHANGED <<practice_leads, thr>>

Next ==
    \/ root
    \/ get_capabilities
    \/ \E req \in Requests("register") : Register(req)
    \/ \E req \in Requests("unregister") : Unregister(req)

Spec == Init /\ [][Next]_vars

----------------------------------------------------------------------------
\* The same handlers on a threaded server: a worker may be descheduled
\* between the membership test and the list mutation.

ConcRequests(op) ==
    {[op |-> op, cap |-> c, email |-> e, username |-> k[1], password |-> k[2]] :
        c \in {CapabilityOrder[1], UnknownCapability}, e \in Emails,
        k \in Credentials}

Pending(pc, req) ==
    [pc |-> pc, op |-> req.op, cap |-> req.cap, email |-> req.email, status |-> 0]

\* app.py:148-163: the checks; the worker answers an error or goes on
BeginRegister(w, req) ==
    /\ thr[w].pc = "idle"
    /\ LET checked == RegisterChecks(capabilities, practice_leads,
                          req.cap, req.email, req.username, req.password)
       IN  thr' = [thr EXCEPT ![w] = IF checked.status = 0
                                     THEN Pending("append", req)
                                     ELSE Idle(checked.status)]
    /\ UNCHANGED <<capabilities, practice_leads, last, follows, prevCaps>>

\* app.py:164-165: the append and the answer
FinishRegister(w) ==
    /\ thr[w].pc = "append"
    /\ LET r == RegisterMutate(capabilities, thr[w].cap, thr[w].email)
       IN  /\ capabilities' = r.capabilities
           /\ thr' = [thr EXCEPT ![w] = Idle(r.response.status)]
    /\ UNCHANGED <<practice_leads, last, follows, prevCaps>>

\* app.py:171-186
BeginUnregister(w, req) ==
    /\ thr[w].pc = "idle"
    /\ LET checked == UnregisterChecks(capabilities, practice_leads,
                          req.cap, req.email, req.username, req.password)
       IN  thr' = [thr EXCEPT ![w] = IF checked.status = 0
                                     THEN Pending("remove", req)
                                     ELSE Idle(checked.status)]
    /\ UNCHANGED <<capabilities, practice_leads, last, follows, prevCaps>>

\* app.py:187-188
FinishUnregister(w) ==
    /\ thr[w].pc = "remove"
    /\ LET r == UnregisterMutate(capabilities, thr[w].cap, thr[w].email)
       IN  /\ capabilities' = r.capabilities
           /\ thr' = [thr EXCEPT ![w] = Idle(r.response.status)]
    /\ UNCHANGED <<practice_leads, last, follows, prevCaps>>

NextConc ==
    \/ \E w \in Workers, req \in ConcRequests("register") : BeginRegister(w, req)
    \/ \E w \in Workers : FinishRegister(w)
    \/ \E w \in Workers, req \in ConcRequests("unregister") : BeginUnregister(w, req)
    \/ \E w \in Workers : FinishUnregister(w)

SpecConc == Init /\ [][NextConc]_vars

----------------------------------------------------------------------------
\* Vocabulary of the properties.

IsMutating(req) == req.op \in {"register", "unregister"}

\* a credential header is absent or empty
MissingHeader(req) == req.username \in {None, ""} \/ req.password \in {None, ""}

\* some stored account has this username and the hash of this password
MatchesAccount(leads, req) ==
    \E i \in 1..Len(leads) :
        /\ leads[i].username = req.username
        /\ leads[i].password_hash = hash_password(req.password)

\* the request carries the credentials of a practice-lead account
ByPracticeLead(leads, req) ==
    /\ ~MissingHeader(req)
    /\ \E i \in 1..Len(leads) :
        /\ leads[i].username = req.username
        /\ leads[i].password_hash = hash_password(req.password)
        /\ leads[i].role = "practice_lead"

\* the list with every entry equal to e left out, the rest in order
Without(list, e) == SelectSeq(list, LAMBDA x : x # e)

\* a capability record with its roster blanked: the metadata
Metadata(record) == [record EXCEPT !.consultants = <<>>]

----------------------------------------------------------------------------
\* C1: under sequential execution, from the seeded catalog, every
\* capability's consultants list holds each email at most once.
NoDuplicateConsultants ==
    \A c \in DOMAIN capabilities : NoDup(capabilities[c].consultants)

\* a roster that holds every email of the model turned a further register away
DuplicateTurnedAway ==
    /\ last.req.op = "register"
    /\ last.response.status = 400
    /\ \A e \in Emails : Contains(capabilities[last.req.cap].consultants, e)

\* C2: register(C,E) by a practice lead, E not in C.consultants, answers
\* 'Registered E for C' and leaves C.consultants = old list with E appended
\* (E exactly once, all else unchanged); the same request repeated right
\* after it answers 400 AlreadyRegistered and changes nothing.
RegisterAppendsOnce ==
    LET req == last.req
        c == req.cap
        e == req.email
    IN  (req.op = "register" /\ ByPracticeLead(practice_leads, req)) =>
          /\ (c \in DOMAIN prevCaps /\ ~Contains(prevCaps[c].consultants, e)) =>
                /\ last.response = Success(<<"Registered ", e, " for ", c>>)
                /\ capabilities =
                     [prevCaps EXCEPT ![c].consultants = prevCaps[c].consultants \o <<e>>]
                /\ Count(capabilities[c].consultants, e) = 1
          /\ follows = "register" =>
                /\ last.response =
                     Error(400, "Consultant is already registered for this capability")
                /\ capabilities = prevCaps

\* a register was repeated right after it had succeeded
RegisterRepeated ==
    /\ last.req.op = "register"
    /\ ByPracticeLead(practice_leads, last.req)
    /\ follows = "register"
    /\ last.response.status = 400

\* C3: unregister(C,E) by a practice lead, E in C.consultants, answers
\* 'Unregistered E from C' and leaves C.consultants = old list without E,
\* the rest in order; the same request repeated right after it answers
\* 400 NotRegistered and changes nothing.
UnregisterRemovesOnce ==
    LET req == last.req
        c == req.cap
        e == req.email
    IN  (req.op = "unregister" /\ ByPracticeLead(practice_leads, req)) =>
          /\ (c \in DOMAIN prevCaps /\ Contains(prevCaps[c].consultants, e)) =>
                /\ last.response = Success(<<"Unregistered ", e, " from ", c>>)
                /\ capabilities =
                     [prevCaps EXCEPT ![c].consultants = Without(prevCaps[c].consultants, e)]
                /\ Len(capabilities[c].consultants) = Len(prevCaps[c].consultants) - 1
          /\ follows = "unregister" =>
                /\ last.response =
                     Error(400, "Consultant is not registered for this capability")
                /\ capabilities = prevCaps

\* an unregister was repeated right after it had succeeded
UnregisterRepeated ==
    /\ last.req.op = "unregister"
    /\ ByPracticeLead(practice_leads, last.req)
    /\ follows = "unregister"
    /\ last.response.status = 400

\* C4 as stated: a register or unregister naming an unknown capability
\* answers 404 whatever its credentials are.
NotFoundWhateverCredentials ==
    (IsMutating(last.req) /\ last.req.cap \notin DOMAIN prevCaps) =>
        last.response.status = 404

\* C4 amended: a register or unregister naming an unknown capability answers
\* 401 when a credential header is missing, 403 when no account matches and
\* 404 only when the credentials are valid; the catalog stays as it was.
NotFoundOnceAuthenticated ==
    (IsMutating(last.req) /\ last.req.cap \notin DOMAIN prevCaps) =>
        /\ last.response =
             IF MissingHeader(last.req)
             THEN Error(401, "Missing credentials")
             ELSE IF ~MatchesAccount(practice_leads, last.req)
             THEN Error(403, "Invalid credentials")
             ELSE Error(404, "Capability not found")
        /\ capabilities = prevCaps

\* an authenticated request named an unknown capability
UnknownCapabilityAnswered ==
    /\ IsMutating(last.req)
    /\ last.req.cap = UnknownCapability
    /\ ByPracticeLead(practice_leads, last.req)
    /\ last.response.status = 404

\* C5: a register or unregister with the username or the password header
\* absent or empty answers 401, whatever capability (known or not) and
\* email it names and whatever the store holds, and changes nothing.
MissingCredentialsRejected ==
    (IsMutating(last.req) /\ MissingHeader(last.req)) =>
        /\ last.response = Error(401, "Missing credentials")
        /\ capabilities = prevCaps

\* a request without a username named an unknown capability
MissingCredentialsOnUnknown ==
    /\ IsMutating(last.req)
    /\ last.req.username = None
    /\ last.req.password # None
    /\ last.req.cap = UnknownCapability
    /\ last.response.status = 401

\* C6: a register or unregister carrying both headers that match no stored
\* account answers 403 and changes neither the catalog nor the store.
InvalidCredentialsRejected ==
    [][ (/\ IsMutating(last'.req)
         /\ ~MissingHeader(last'.req)
         /\ ~MatchesAccount(practice_leads, last'.req)) =>
            /\ last'.response = Error(403, "Invalid credentials")
            /\ capabilities' = capabilities
            /\ practice_leads' = practice_leads ]_vars

\* a stored username came with a password that is not its own
WrongPasswordAnswered ==
    /\ IsMutating(last.req)
    /\ \E i \in 1..Len(practice_leads) :
          /\ practice_leads[i].username = last.req.username
          /\ practice_leads[i].password_hash # hash_password(last.req.password)
    /\ ~MissingHeader(last.req)
    /\ last.req.cap \in DOMAIN capabilities
    /\ last.response.status = 403

\* C7: the catalog changes only by a successful register or unregister,
\* which changes only the consultants of the capability it names; the set
\* of names, the other records, the metadata and the store never change,
\* and the root, the listing and every failed request change nothing.
OnlyRosterChanges ==
    [][ /\ practice_leads' = practice_leads
        /\ DOMAIN capabilities' = DOMAIN capabilities
        /\ capabilities' # capabilities =>
              (IsMutating(last'.req) /\ last'.response.status = 200)
        /\ \A c \in DOMAIN capabilities :
              /\ c # last'.req.cap => capabilities'[c] = capabilities[c]
              /\ Metadata(capabilities'[c]) = Metadata(capabilities[c])
        /\ (~IsMutating(last'.req) \/ last'.response.status # 200) =>
              capabilities' = capabilities ]_vars

\* a successful request changed one roster while another capability, whose
\* roster had been changed before, kept it
RosterChanged ==
    /\ IsMutating(last.req)
    /\ last.response.status = 200
    /\ capabilities # prevCaps
    /\ \E c \in DOMAIN capabilities :
          /\ c # last.req.cap
          /\ capabilities[c] # SeedCatalog[c]
          /\ capabilities[c] = prevCaps[c]

\* C9: authentication returns practice leads only, 'Insufficient
\* permissions' is never answered, and an authenticated register or
\* unregister on an existing capability ends in 200 or in 400.
OnlyPracticeLeadsAct ==
    /\ \A k \in Credentials :
          LET user == authenticate_user(practice_leads, k[1], k[2])
          IN  user # NoUser => user.role = "practice_lead"
    /\ last.response.detail # "Insufficient permissions"
    /\ (/\ IsMutating(last.req)
        /\ ~MissingHeader(last.req)
        /\ MatchesAccount(practice_leads, last.req)
        /\ last.req.cap \in DOMAIN prevCaps) => last.response.status \in {200, 400}

\* a lead registered or unregistered somebody else
LeadActedOnAnother ==
    /\ IsMutating(last.req)
    /\ last.response.status = 200
    /\ last.req.username # last.req.email

\* C10: a successful register(C,E) followed at once by unregister(C,E) by a
\* practice lead restores the whole catalog, order included; a successful
\* unregister(C,E) followed at once by register(C,E) restores the members
\* of C.consultants with E moved to the end, so the list is the original
\* one exactly when E was its last entry.
RoundTrip ==
    [][ LET c == last.req.cap
            e == last.req.email
            old == prevCaps[c].consultants
        IN  (/\ IsMutating(last.req)
             /\ last.response.status = 200
             /\ IsMutating(last'.req)
             /\ last'.req.op # last.req.op
             /\ last'.req.cap = c
             /\ last'.req.email = e
             /\ ByPracticeLead(practice_leads, last'.req)) =>
               /\ last'.response.status = 200
               /\ \A d \in DOMAIN prevCaps : d # c => capabilities'[d] = prevCaps[d]
               /\ last.req.op = "register" => capabilities' = prevCaps
               /\ last.req.op = "unregister" =>
                     /\ capabilities'[c].consultants = Without(old, e) \o <<e>>
                     /\ Range(capabilities'[c].consultants) = Range(old)
                     /\ (capabilities' = prevCaps) <=> (old[Len(old)] = e) ]_vars

\* an email that was not last in a roster was unregistered and registered
\* again, and now stands behind the one that used to follow it
MovedToTheEnd ==
    /\ follows = "unregister"
    /\ last.req.op = "register"
    /\ last.response.status = 200
    /\ LET list == capabilities[last.req.cap].consultants
       IN  /\ Len(list) >= 2
           /\ list[Len(list)] = last.req.email
           /\ list # SeedCatalog[last.req.cap].consultants
           /\ Range(list) = Range(SeedCatalog[last.req.cap].consultants)

\* C8: on a threaded server a worker that has passed the membership test
\* appends whatever the list has become: when the email got in meanwhile,
\* the append leaves it in the list twice.
ConcurrentAppendDuplicates ==
    [][ \A w \in Workers :
          (/\ thr[w].pc = "append"
           /\ thr'[w].pc = "idle"
           /\ Contains(capabilities[thr[w].cap].consultants, thr[w].email)) =>
              /\ thr'[w].status = 200
              /\ Count(capabilities'[thr[w].cap].consultants, thr[w].email) >= 2 ]_vars

\* both workers registered the same email and both were answered 200
DuplicateReached ==
    /\ \A w \in Workers : thr[w].pc = "idle" /\ thr[w].status = 200
    /\ \E c \in DOMAIN capabilities, e \in Emails :
          /\ ~Contains(SeedCatalog[c].consultants, e)
          /\ Count(capabilities[c].consultants, e) = 2

====
